---- MODULE Spec2Model ----
(***************************************************************************)
(* Model of the StatsBomb ingestion script src/src/app/load_from_s3.py:   *)
(* module initialisation and the command line, the four ingestion jobs    *)
(* (load_competitions, load_matches, load_lineups, load_events), the      *)
(* worker pool of load_events, and the PostgreSQL tables they write.      *)
(***************************************************************************)
EXTENDS Integers, Sequences, FiniteSets, Bags, TLC

(***************************************************************************)
(* Bounds of the model.                                                   *)
(***************************************************************************)
MaxPairs == 2
MaxMatches == 2
MaxEvents == 2
MaxTeams == 1
MaxRuns == 2

(***************************************************************************)
(* Program constants.                                                     *)
(***************************************************************************)
\* max_workers of the ThreadPoolExecutor
max_workers == 8

(***************************************************************************)
(* Python values.  None is the empty tuple and a present value v is <<v>>, *)
(* so that a nullable column holds values of one shape.  A dict is a      *)
(* record; a missing key is a name outside its DOMAIN.  In an event       *)
(* record, as json.load returns it, a scalar v is held as <<v>> and a     *)
(* JSON null as None.                                                     *)
(***************************************************************************)
None == <<>>
Some(v) == <<v>>
IsNone(v) == DOMAIN v = {}

\* dict.get(key): the value (None for a JSON null), or None when the key is absent
Get(d, k) == IF k \in DOMAIN d THEN d[k] ELSE None

\* event.get("type", {}).get("name") raises AttributeError when the key "type"
\* is present with value None: the default {} stands in for an absent key only
EventRaises(event) == "type" \in DOMAIN event /\ IsNone(event["type"])

\* event.get("type", {}).get("name"), where it does not raise
TypeName(event) == IF "type" \in DOMAIN event THEN Get(event["type"], "name") ELSE None

SeqsUpTo(S, n) == UNION {[1..k -> S] : k \in 0..n}

RECURSIVE SumTo(_, _)
SumTo(f, n) == IF n = 0 THEN 0 ELSE f[n] + SumTo(f, n - 1)

(***************************************************************************)
(* The source data held by the object store.  A resource is fetched by    *)
(* json.load(s3.get_object(...)["Body"]): status "missing" makes          *)
(* get_object raise, "malformed" makes json.load raise, "ok" yields body. *)
(***************************************************************************)
Pairs == 1..MaxPairs
MatchIds == 1..MaxMatches

Unavailable == {[status |-> "missing", body |-> <<>>], [status |-> "malformed", body |-> <<>>]}
Resources(Docs) == Unavailable \cup {[status |-> "ok", body |-> d] : d \in Docs}
Fetched(res) == res.status = "ok"

\* the manifest competitions.json: one record per competition/season pair
Manifest ==
    [p \in Pairs |-> [competition_id |-> p, season_id |-> 10 * p,
                      country_name |-> "country", competition_name |-> "competition",
                      season_name |-> "season"]]

\* the fields load_competitions reads from a manifest record
RequiredFields == {"competition_id", "season_id", "country_name", "competition_name",
                   "season_name"}
\* the record r as a source that omits field f holds it
WithoutField(r, f) == [k \in DOMAIN r \ {f} |-> r[k]]
\* manifests in which records lack one of the required fields
Manifests ==
    {[p \in Pairs |-> IF miss[p] = "none" THEN Manifest[p]
                      ELSE WithoutField(Manifest[p], miss[p])] :
        miss \in [Pairs -> {"none"} \cup RequiredFields]}

\* a record of a match list; a malformed record lacks its match_id
MatchRecord(m, wellFormed) ==
    IF wellFormed
    THEN [match_id |-> m, match_date |-> "date",
          home_team |-> [home_team_name |-> "home"], away_team |-> [away_team_name |-> "away"]]
    ELSE [match_date |-> "date",
          home_team |-> [home_team_name |-> "home"], away_team |-> [away_team_name |-> "away"]]

\* the shapes of a match record: complete, or lacking its match_id or one of
\* its nested team objects
MatchShapes == {"ok", "no_id", "no_home", "no_away"}
ShapedRecord(m, shape) ==
    CASE shape = "no_id" -> MatchRecord(m, FALSE)
      [] shape = "no_home" -> WithoutField(MatchRecord(m, TRUE), "home_team")
      [] shape = "no_away" -> WithoutField(MatchRecord(m, TRUE), "away_team")
      [] OTHER -> MatchRecord(m, TRUE)

\* event records: the index may be absent and may leave gaps
IndexVals == {0, 2}
EventRecords ==
    {[timestamp |-> Some("ts")]}
    \cup {[index |-> Some(i), timestamp |-> Some("ts"), type |-> [name |-> Some("Pass")]] :
              i \in IndexVals}
EventDocs == SeqsUpTo(EventRecords, MaxEvents)

\* event records of every shape: each of index, timestamp and type absent, null
\* or present, and the type object with its name absent, null or present
TypeObjects == {None, [id |-> Some(30)], [id |-> Some(30), name |-> None],
                [id |-> Some(30), name |-> Some("Pass")]}
EventShapes ==
    UNION {{[k \in D |-> CASE k = "index" -> ix [] k = "timestamp" -> ts [] OTHER -> ty] :
               ix \in {None, Some(0)}, ts \in {None, Some("ts")}, ty \in TypeObjects} :
           D \in SUBSET {"index", "timestamp", "type"}}
EventShapeDocs == SeqsUpTo(EventShapes, MaxEvents)

\* lineup documents: a list of teams, each with its list of players
TeamRecords ==
    {[team_name |-> "home", lineup |-> <<[player_name |-> "p1"], [player_name |-> "p2"]>>],
     [team_name |-> "away", lineup |-> <<[player_name |-> "p3"]>>]}
\* a team record without its list of players
MalformedTeams == {[team_name |-> "home"]}
LineupDocs == SeqsUpTo(TeamRecords \cup MalformedTeams, MaxTeams)

JobTypes == {"competitions", "matches", "lineups", "events"}

VARIABLES
    \* the environment: object store contents and database reachability
    manifest,        \* the records of competitions.json
    matchRes,        \* pair -> resource matches/{comp}/{season}.json
    eventRes,        \* match id -> resource events/{match_id}.json
    lineupRes,       \* match id -> resource lineups/{match_id}.json
    dbFault,         \* match id -> what the database refuses when the rows of that
                     \* match are loaded: "none", "connect" (psycopg2.connect
                     \* raises in the worker) or "write" (the server rejects the
                     \* INSERT and execute_values raises)
    \* the database (committed rows, one bag per table)
    db,
    \* the process
    environ,         \* the environment variables: name -> value, None when unset
    argType,         \* value of --type
    io,              \* kinds of remote I/O done so far by the process
    pc,              \* position of the main thread
    exit,            \* "running", "ok", "error" (uncaught exception), "usage"
    run,             \* number of the current invocation
    baseline,        \* the database as the previous invocation left it
    comp_i,          \* index of the manifest entry the current loop is at
    match_list,      \* load_events: resolved (comp_id, season_id, match) list
    total_matches,
    match_id,        \* load_events second pass: the local match_id
    txn,             \* transaction of the main thread's connection
    tasks,           \* pool tasks, one per entry of match_list
    global_counter,
    progress_lock,   \* 0 or the index of the task holding it
    print_lock,
    out,             \* the log lines printed, in order
    hist             \* what the current invocation has done so far: the number of
                     \* CREATE TABLE statements executed, whether a data write
                     \* was executed, and the phases entered, in order

envVars == <<manifest, matchRes, eventRes, lineupRes, dbFault>>
procVars == <<environ, argType, io, pc, exit, run, baseline, comp_i, match_list,
              total_matches, match_id, txn, tasks, global_counter, progress_lock,
              print_lock, out, hist>>
vars == <<manifest, matchRes, eventRes, lineupRes, dbFault, db, environ, argType, io, pc, exit,
          run, baseline, comp_i, match_list, total_matches, match_id, txn, tasks,
          global_counter, progress_lock, print_lock, out, hist>>

Unbound == 0
NoTxn == [state |-> "none", writes |-> EmptyBag]
OpenTxn == [state |-> "open", writes |-> EmptyBag]
EmptyDb == [competitions |-> EmptyBag, matches |-> EmptyBag,
            lineups |-> EmptyBag, events |-> EmptyBag]

Line(kind, m, n) == [line |-> kind, match |-> m, n |-> n]

\* the history of an invocation
NoHistory == [creates |-> 0, wrote |-> FALSE, phases |-> <<>>]
Enter(h, phase) ==
    IF h.phases # <<>> /\ h.phases[Len(h.phases)] = phase THEN h
    ELSE [h EXCEPT !.phases = Append(@, phase)]
\* a CREATE TABLE IF NOT EXISTS statement was executed
Created(h) == [Enter(h, "EnsuringSchema") EXCEPT !.creates = @ + 1]
\* resources were fetched and, when w, an INSERT statement was executed
Loaded(h, w) == [Enter(h, "Loading") EXCEPT !.wrote = @ \/ w]


(***************************************************************************)
(* The database.  A table is a bag of rows.                               *)
(***************************************************************************)
AddRow(T, row) == T (+) SetToBag({row})

\* events: UNIQUE (match_id, index); rows with a NULL index never collide
EventConflict(T, row) ==
    /\ row[2] # None
    /\ \E s \in BagToSet(T) : s[1] = row[1] /\ s[2] = row[2]

\* INSERT INTO events ... VALUES %s ON CONFLICT DO NOTHING, over a batch
RECURSIVE InsertEventsDoNothing(_, _, _)
InsertEventsDoNothing(T, rows, k) ==
    IF k > Len(rows) THEN T
    ELSE InsertEventsDoNothing(
             IF EventConflict(T, rows[k]) THEN T ELSE AddRow(T, rows[k]), rows, k + 1)

\* the row load_single_match builds from one event
EventRow(m, event) == <<m, Get(event, "index"), Get(event, "timestamp"), TypeName(event)>>

\* variant: the rows are sorted by index before they are submitted
RowsToInsertSorted(m, data) ==
    IF Len(data) = 2 /\ "index" \in DOMAIN data[1] /\ "index" \in DOMAIN data[2]
       /\ data[1]["index"][1] > data[2]["index"][1]
    THEN <<EventRow(m, data[2]), EventRow(m, data[1])>>
    ELSE [k \in 1..Len(data) |-> EventRow(m, data[k])]

\* rows_to_insert = [(match_id, ...) for event in data]
RowsToInsert(m, data) == [k \in 1..Len(data) |-> EventRow(m, data[k])]

\* the list comprehension raises when one of its events does
RowsRaise(data) == \E k \in 1..Len(data) : EventRaises(data[k])

(***************************************************************************)
(* Initial states: the process has been started with a valid --type and   *)
(* module initialisation has finished without a parameter-store call.     *)
(***************************************************************************)
AllMissing(S) == [x \in S |-> [status |-> "missing", body |-> <<>>]]

\* the match lists: pair p holds count[p] records with consecutive ids
MatchLists(count, gone, bad) ==
    [p \in Pairs |->
        IF p \in gone THEN [status |-> "missing", body |-> <<>>]
        ELSE [status |-> "ok",
              body |-> [k \in 1..count[p] |->
                          MatchRecord(SumTo(count, p - 1) + k,
                                      (SumTo(count, p - 1) + k) \notin bad)]]]

\* the same, with records of every shape
MatchListsShaped(count, gone, shape) ==
    [p \in Pairs |->
        IF p \in gone THEN [status |-> "missing", body |-> <<>>]
        ELSE [status |-> "ok",
              body |-> [k \in 1..count[p] |->
                          ShapedRecord(SumTo(count, p - 1) + k,
                                       shape[SumTo(count, p - 1) + k])]]]

Layouts ==
    {c \in [Pairs -> 0..MaxMatches] : SumTo(c, MaxPairs) <= MaxMatches}

\* the environment variables the module reads, and what one may hold: nothing
\* (unset), the empty string, or a value
EnvNames == {"DATABASE_URL", "S3_BUCKET_NAME", "AWS_ACCESS_KEY_ID", "AWS_SECRET_ACCESS_KEY"}
EnvValues == {None, Some(""), Some("value")}

\* os.getenv(name): the value, None when the variable is unset
Getenv(env, name) == env[name]

\* the truth value of what os.getenv returns: None and "" are false
Truthy(v) == v # None /\ v # Some("")

InitProcess ==
    /\ environ = [n \in EnvNames |-> IF n \in {"DATABASE_URL", "S3_BUCKET_NAME"}
                                     THEN Some("value") ELSE None]
    /\ io = {}
    /\ pc = "dispatch"
    /\ exit = "running"
    /\ run = 1
    /\ baseline = EmptyDb
    /\ comp_i = 0
    /\ match_list = <<>>
    /\ total_matches = 0
    /\ match_id = Unbound
    /\ txn = NoTxn
    /\ tasks = <<>>
    /\ global_counter = 0
    /\ progress_lock = 0
    /\ print_lock = 0
    /\ out = <<>>
    /\ hist = NoHistory

NoDbFault == [m \in MatchIds |-> "none"]

InitCompetitions ==
    /\ argType = "competitions"
    /\ matchRes = AllMissing(Pairs)
    /\ eventRes = AllMissing(MatchIds)
    /\ lineupRes = AllMissing(MatchIds)
    /\ manifest = Manifest
    /\ dbFault = NoDbFault

InitMatches ==
    /\ argType = "matches"
    /\ \E count \in Layouts, gone \in SUBSET Pairs, shape \in [MatchIds -> MatchShapes] :
          /\ \A p \in gone : count[p] = 0
          /\ \A m \in MatchIds \ (1..SumTo(count, MaxPairs)) : shape[m] = "ok"
          /\ matchRes = MatchListsShaped(count, gone, shape)
    /\ eventRes = AllMissing(MatchIds)
    /\ lineupRes = AllMissing(MatchIds)
    /\ manifest = Manifest
    /\ dbFault = NoDbFault

InitLineups ==
    /\ argType = "lineups"
    /\ manifest = Manifest
    /\ \E count \in Layouts, gone \in SUBSET Pairs, bad \in SUBSET MatchIds :
          LET used == 1..SumTo(count, MaxPairs) IN
          /\ \A p \in gone : count[p] = 0
          /\ bad \subseteq used
          /\ matchRes = MatchLists(count, gone, bad)
          /\ lineupRes \in [MatchIds -> Resources(LineupDocs)]
          /\ \A m \in MatchIds \ (used \ bad) : lineupRes[m].status = "missing"
          /\ dbFault \in [MatchIds -> {"none", "write"}]
          /\ \A m \in MatchIds \ (used \ bad) : dbFault[m] = "none"
    /\ eventRes = AllMissing(MatchIds)

InitEvents ==
    /\ argType = "events"
    /\ \E count \in Layouts, gone \in SUBSET Pairs, bad \in SUBSET MatchIds :
          LET used == 1..SumTo(count, MaxPairs) IN
          /\ \A p \in gone : count[p] = 0
          /\ bad \subseteq used
          /\ matchRes = MatchLists(count, gone, bad)
          /\ eventRes \in [MatchIds -> Resources(EventDocs)]
          /\ \A m \in MatchIds \ (used \ bad) : eventRes[m].status = "missing"
          /\ dbFault \in [MatchIds -> {"none", "connect", "write"}]
          /\ \A m \in MatchIds \ (used \ bad) : dbFault[m] = "none"
    /\ lineupRes = AllMissing(MatchIds)
    /\ manifest = Manifest

Init ==
    /\ db = EmptyDb
    /\ InitProcess
    /\ (InitCompetitions \/ InitMatches \/ InitLineups \/ InitEvents)

(***************************************************************************)
(* The command line: dispatch on args.type.                               *)
(***************************************************************************)
Dispatch ==
    /\ pc = "dispatch"
    /\ pc' = CASE argType = "competitions" -> "comp_fetch"
               [] argType = "matches" -> "m_schema"
               [] argType = "lineups" -> "l_schema"
               [] OTHER -> "ev_schema"
    /\ UNCHANGED <<hist, envVars, db, environ, argType, io, exit, run, baseline, comp_i,
                   match_list, total_matches, match_id, txn, tasks, global_counter,
                   progress_lock, print_lock, out>>

\* leaving "with conn": commit; on an aborted transaction COMMIT rolls back
Commit(T, t) == IF t.state = "open" THEN T (+) t.writes ELSE T

\* The loop bodies keep their locals in a record st with a field raised, which
\* says that an exception is on its way to the enclosing "except Exception".
Raise(st) == [st EXCEPT !.raised = TRUE]

(***************************************************************************)
(* load_competitions.                                                     *)
(***************************************************************************)
\* obj = s3.get_object(... competitions.json); data = json.load(obj["Body"])
CompFetchManifest ==
    /\ pc = "comp_fetch"
    /\ hist' = Enter(hist, "Resolving")
    /\ io' = io \cup {"s3"}
    /\ pc' = "comp_schema"
    /\ UNCHANGED <<envVars, db, environ, argType, exit, run, baseline, comp_i,
                   match_list, total_matches, match_id, txn, tasks, global_counter,
                   progress_lock, print_lock, out>>

\* with psycopg2.connect(...): CREATE TABLE IF NOT EXISTS competitions (...)
CompEnsureSchema ==
    /\ pc = "comp_schema"
    /\ hist' = Created(hist)
    /\ io' = io \cup {"db"}
    /\ txn' = OpenTxn
    /\ comp_i' = 1
    /\ pc' = "comp_loop"
    /\ UNCHANGED <<envVars, db, environ, argType, exit, run, baseline,
                   match_list, total_matches, match_id, tasks, global_counter,
                   progress_lock, print_lock, out>>

CompetitionRow(row) ==
    <<row["competition_id"], row["season_id"], row["country_name"],
      row["competition_name"], row["season_name"]>>

\* the competitions table declares no primary key and no unique constraint,
\* so ON CONFLICT DO NOTHING has nothing to collide with
CompetitionConflict(T, row) == FALSE

\* a record the parameter tuple of the INSERT can be built from
CompetitionWellFormed(row) == RequiredFields \subseteq DOMAIN row

\* INSERT INTO competitions ... ON CONFLICT DO NOTHING, for one row of data.
\* A missing key raises KeyError, which nothing in load_competitions catches:
\* the "with" block rolls the transaction back and the exception ends the job.
CompInsert ==
    /\ pc = "comp_loop"
    /\ comp_i <= Len(manifest)
    /\ IF CompetitionWellFormed(manifest[comp_i])
       THEN /\ LET row == CompetitionRow(manifest[comp_i]) IN
                  txn' = IF CompetitionConflict(db.competitions (+) txn.writes, row)
                         THEN txn
                         ELSE [txn EXCEPT !.writes = AddRow(@, row)]
            /\ hist' = Loaded(hist, TRUE)
            /\ comp_i' = comp_i + 1
            /\ UNCHANGED <<pc, exit>>
       ELSE /\ txn' = NoTxn
            /\ hist' = Loaded(hist, FALSE)
            /\ exit' = "error"
            /\ pc' = "end"
            /\ comp_i' = comp_i
    /\ UNCHANGED <<envVars, db, environ, argType, io, run, baseline,
                   match_list, total_matches, match_id, tasks, global_counter,
                   progress_lock, print_lock, out>>

\* end of the loop and of "with psycopg2.connect(...)": commit
CompCommit ==
    /\ pc = "comp_loop"
    /\ hist' = Enter(hist, "Completed")
    /\ comp_i > Len(manifest)
    /\ db' = [db EXCEPT !.competitions = Commit(@, txn)]
    /\ txn' = NoTxn
    /\ exit' = "ok"
    /\ pc' = "end"
    /\ UNCHANGED <<envVars, environ, argType, io, run, baseline, comp_i, match_list,
                   total_matches, match_id, tasks, global_counter, progress_lock,
                   print_lock, out>>

(***************************************************************************)
(* load_matches.                                                          *)
(***************************************************************************)
\* with psycopg2.connect(...): CREATE TABLE IF NOT EXISTS matches (match_id ... PRIMARY KEY)
MatchesEnsureSchema ==
    /\ pc = "m_schema"
    /\ hist' = Created(hist)
    /\ io' = io \cup {"db"}
    /\ txn' = OpenTxn
    /\ pc' = "m_manifest"
    /\ UNCHANGED <<envVars, db, environ, argType, exit, run, baseline, comp_i,
                   match_list, total_matches, match_id, tasks, global_counter,
                   progress_lock, print_lock, out>>

MatchesFetchManifest ==
    /\ pc = "m_manifest"
    /\ hist' = Enter(hist, "Resolving")
    /\ io' = io \cup {"s3"}
    /\ comp_i' = 1
    /\ pc' = "m_loop"
    /\ UNCHANGED <<envVars, db, environ, argType, exit, run, baseline,
                   match_list, total_matches, match_id, txn, tasks, global_counter,
                   progress_lock, print_lock, out>>

\* variant: the matches table is created without its primary key
MatchConflictNoKey(T, row) == FALSE

\* matches.match_id is the primary key
MatchConflict(T, row) == \E s \in BagToSet(T) : s[1] = row[1]

MatchRow(comp, match) ==
    <<match["match_id"], comp.competition_id, comp.season_id, match["match_date"],
      match["home_team"]["home_team_name"], match["away_team"]["away_team_name"]>>

\* a record the parameter tuple of the INSERT can be built from
MatchWellFormed(match) ==
    /\ {"match_id", "match_date", "home_team", "away_team"} \subseteq DOMAIN match
    /\ "home_team_name" \in DOMAIN match["home_team"]
    /\ "away_team_name" \in DOMAIN match["away_team"]

\* for match in data: INSERT INTO matches ... ON CONFLICT (match_id) DO NOTHING; print
\* st = [txn, out, raised]
RECURSIVE MatchesInsertAll(_, _, _, _, _)
MatchesInsertAll(T, st, comp, data, k) ==
    IF k > Len(data) \/ st.raised THEN st
    ELSE IF ~MatchWellFormed(data[k])
    THEN MatchesInsertAll(T, Raise(st), comp, data, k + 1)
    ELSE LET row == MatchRow(comp, data[k])
             written == IF MatchConflict(T (+) st.txn.writes, row) THEN st.txn.writes
                        ELSE AddRow(st.txn.writes, row)
         IN  MatchesInsertAll(T,
                 [st EXCEPT !.txn.writes = written,
                            !.out = Append(@, Line("m_inserted", row[1], 0))],
                 comp, data, k + 1)

\* one iteration of "for comp in competitions"
MatchesPair ==
    /\ pc = "m_loop"
    /\ comp_i <= Len(manifest)
    /\ LET st0 == [txn |-> txn, out |-> out, raised |-> FALSE]
           st == IF Fetched(matchRes[comp_i])
                 THEN MatchesInsertAll(db.matches, st0, manifest[comp_i],
                                       matchRes[comp_i].body, 1)
                 ELSE Raise(st0)
       IN  /\ txn' = st.txn
           /\ hist' = Loaded(hist, st.out # out)
           /\ out' = IF st.raised
                     THEN Append(st.out, Line("m_failed", manifest[comp_i].competition_id, 0))
                     ELSE st.out
    /\ comp_i' = comp_i + 1
    /\ UNCHANGED <<envVars, db, environ, argType, io, pc, exit, run, baseline,
                   match_list, total_matches, match_id, tasks, global_counter,
                   progress_lock, print_lock>>

MatchesCommit ==
    /\ pc = "m_loop"
    /\ hist' = Enter(hist, "Completed")
    /\ comp_i > Len(manifest)
    /\ db' = [db EXCEPT !.matches = Commit(@, txn)]
    /\ txn' = NoTxn
    /\ exit' = "ok"
    /\ pc' = "end"
    /\ UNCHANGED <<envVars, environ, argType, io, run, baseline, comp_i, match_list,
                   total_matches, match_id, tasks, global_counter, progress_lock,
                   print_lock, out>>

(***************************************************************************)
(* load_lineups.                                                          *)
(***************************************************************************)
\* with psycopg2.connect(...): CREATE TABLE IF NOT EXISTS lineups (...)
LineupsEnsureSchema ==
    /\ pc = "l_schema"
    /\ hist' = Created(hist)
    /\ io' = io \cup {"db"}
    /\ txn' = OpenTxn
    /\ pc' = "l_manifest"
    /\ UNCHANGED <<envVars, db, environ, argType, exit, run, baseline, comp_i,
                   match_list, total_matches, match_id, tasks, global_counter,
                   progress_lock, print_lock, out>>

LineupsFetchManifest ==
    /\ pc = "l_manifest"
    /\ hist' = Enter(hist, "Resolving")
    /\ io' = io \cup {"s3"}
    /\ comp_i' = 1
    /\ pc' = "l_loop"
    /\ UNCHANGED <<envVars, db, environ, argType, exit, run, baseline,
                   match_list, total_matches, match_id, txn, tasks, global_counter,
                   progress_lock, print_lock, out>>

\* for player in team["lineup"]: rows_to_insert.append((match_id, team_name, player_name))
TeamRows(m, team) ==
    [k \in 1..Len(team["lineup"]) |-> <<m, team["team_name"], team["lineup"][k]["player_name"]>>]

\* for team in data: ...
RECURSIVE LineupRows(_, _, _)
LineupRows(m, data, k) ==
    IF k > Len(data) THEN <<>> ELSE TeamRows(m, data[k]) \o LineupRows(m, data, k + 1)

\* INSERT INTO lineups (...) VALUES %s : a plain insert of the batch
RECURSIVE AddRows(_, _, _)
AddRows(T, rows, k) == IF k > Len(rows) THEN T ELSE AddRows(AddRow(T, rows[k]), rows, k + 1)

\* a document the rows can be built from: team["team_name"], team["lineup"]
\* and player["player_name"] raise KeyError on a missing key
LineupWellFormed(data) ==
    \A k \in 1..Len(data) :
        /\ {"team_name", "lineup"} \subseteq DOMAIN data[k]
        /\ \A j \in 1..Len(data[k]["lineup"]) : "player_name" \in DOMAIN data[k]["lineup"][j]

\* after the fetch: build the rows, execute_values when there are any, print.
\* A statement the server rejects aborts the transaction of the job's one
\* connection, and every later statement on it is rejected until it ends.
LineupsWrite(st, m) ==
    IF ~LineupWellFormed(lineupRes[m].body)
    THEN [st EXCEPT !.out = Append(@, Line("l_failed", m, 0))]
    ELSE LET rows == LineupRows(m, lineupRes[m].body, 1) IN
         IF rows = <<>>
         THEN [st EXCEPT !.out = Append(@, Line("l_loaded", m, 0))]
         ELSE IF st.txn.state = "aborted" \/ dbFault[m] = "write"
         THEN [st EXCEPT !.txn.state = "aborted",
                         !.out = Append(@, Line("l_failed", m, 0))]
         ELSE [st EXCEPT !.txn.writes = AddRows(@, rows, 1),
                         !.out = Append(@, Line("l_loaded", m, 0))]

\* variant: no inner try, a failed fetch reaches the except of the pair
LineupsMatchUncaught(st, m) ==
    IF ~Fetched(lineupRes[m]) THEN Raise(st) ELSE LineupsWrite(st, m)

\* the inner try of one match: fetch, build the rows, execute_values, print;
\* except Exception: print the failure and go on with the next match
LineupsMatch(st, m) ==
    IF ~Fetched(lineupRes[m])
    THEN [st EXCEPT !.out = Append(@, Line("l_failed", m, 0))]
    ELSE LineupsWrite(st, m)

\* for idx, match in enumerate(matches): match_id = match["match_id"]; try: ...
RECURSIVE LineupsMatches(_, _, _)
LineupsMatches(st, matches, k) ==
    IF k > Len(matches) \/ st.raised THEN st
    ELSE IF "match_id" \notin DOMAIN matches[k]
    THEN Raise(st)
    ELSE LineupsMatches(LineupsMatch(st, matches[k].match_id), matches, k + 1)

\* one iteration of "for comp in competitions"
LineupsPair ==
    /\ pc = "l_loop"
    /\ comp_i <= Len(manifest)
    /\ LET st0 == [txn |-> txn, out |-> out, raised |-> FALSE]
           st == IF Fetched(matchRes[comp_i])
                 THEN LineupsMatches(st0, matchRes[comp_i].body, 1)
                 ELSE Raise(st0)
       IN  /\ txn' = st.txn
           /\ hist' = Loaded(hist, st.txn # txn)
           /\ out' = IF st.raised
                     THEN Append(st.out, Line("l_no_match_list", manifest[comp_i].competition_id, 0))
                     ELSE st.out
    /\ comp_i' = comp_i + 1
    /\ UNCHANGED <<envVars, db, environ, argType, io, pc, exit, run, baseline,
                   match_list, total_matches, match_id, tasks, global_counter,
                   progress_lock, print_lock>>

LineupsCommit ==
    /\ pc = "l_loop"
    /\ hist' = Enter(hist, "Completed")
    /\ comp_i > Len(manifest)
    /\ db' = [db EXCEPT !.lineups = Commit(@, txn)]
    /\ txn' = NoTxn
    /\ exit' = "ok"
    /\ pc' = "end"
    /\ UNCHANGED <<envVars, environ, argType, io, run, baseline, comp_i, match_list,
                   total_matches, match_id, tasks, global_counter, progress_lock,
                   print_lock, out>>

(***************************************************************************)
(* load_events, first part: schema, resolution, the worker pool.          *)
(***************************************************************************)
\* with psycopg2.connect(...): CREATE TABLE IF NOT EXISTS events, CREATE INDEX; commit
EventsEnsureSchema ==
    /\ pc = "ev_schema"
    /\ hist' = Created(hist)
    /\ io' = io \cup {"db"}
    /\ pc' = "ev_manifest"
    /\ UNCHANGED <<envVars, db, environ, argType, exit, run, baseline, comp_i,
                   match_list, total_matches, match_id, txn, tasks, global_counter,
                   progress_lock, print_lock, out>>

\* competitions = json.load(s3.get_object(... competitions.json)); match_list = []
EventsFetchManifest ==
    /\ pc = "ev_manifest"
    /\ hist' = Enter(hist, "Resolving")
    /\ io' = io \cup {"s3"}
    /\ comp_i' = 1
    /\ match_list' = <<>>
    /\ pc' = "ev_resolve"
    /\ UNCHANGED <<envVars, db, environ, argType, exit, run, baseline,
                   total_matches, match_id, txn, tasks, global_counter,
                   progress_lock, print_lock, out>>

\* variant: the matches of a pair are prepended one by one
TupledReversed(comp, matches) ==
    [k \in 1..Len(matches) |->
        <<comp.competition_id, comp.season_id, matches[Len(matches) + 1 - k]>>]

\* [(comp_id, season_id, m) for m in matches]
Tupled(comp, matches) ==
    [k \in 1..Len(matches) |-> <<comp.competition_id, comp.season_id, matches[k]>>]

\* one iteration of "for comp in competitions" of the resolution loop
EventsResolvePair ==
    /\ pc = "ev_resolve"
    /\ hist' = Enter(hist, "Resolving")
    /\ comp_i <= Len(manifest)
    /\ IF Fetched(matchRes[comp_i])
       THEN /\ match_list' = match_list \o Tupled(manifest[comp_i], matchRes[comp_i].body)
            /\ out' = out
       ELSE /\ match_list' = match_list
            /\ out' = Append(out, Line("no_match_list", manifest[comp_i].competition_id, 0))
    /\ comp_i' = comp_i + 1
    /\ UNCHANGED <<envVars, db, environ, argType, io, pc, exit, run, baseline,
                   total_matches, match_id, txn, tasks, global_counter,
                   progress_lock, print_lock>>

\* a task's database connection: none yet, or the connection it opened
NoConn == [id |-> 0, state |-> "none"]

\* the task executor.map creates for one entry of match_list
NewTask(item) == [pc |-> "queued", item |-> item, match_id |-> Unbound,
                  rows_to_insert |-> <<>>, batch |-> <<>>, pending |-> EmptyBag,
                  loaded |-> 0, conn |-> NoConn]

\* total_matches = len(match_list); executor.map(...) submits one task per entry
EventsSubmit ==
    /\ pc = "ev_resolve"
    /\ hist' = Enter(hist, "Loading")
    /\ comp_i > Len(manifest)
    /\ total_matches' = Len(match_list)
    /\ tasks' = [i \in 1..Len(match_list) |-> NewTask(match_list[i])]
    /\ pc' = "ev_pool"
    /\ UNCHANGED <<envVars, db, environ, argType, io, exit, run, baseline, comp_i,
                   match_list, match_id, txn, global_counter, progress_lock,
                   print_lock, out>>

\* a task ends "done" (returned after the success line), "caught" (returned
\* after the except handler) or "raised" (an exception left load_single_match
\* and stays in the future, which executor.map's unread iterator never raises)
Finished(i) == tasks[i].pc \in {"done", "caught", "raised"}
\* a task is in progress from the moment a worker thread takes it off the queue
Running(i) == tasks[i].pc # "queued" /\ ~Finished(i)

\* variant: a worker thread per task, whatever their number
CanStartUnbounded(i) == TRUE

\* ThreadPoolExecutor(max_workers=max_workers): a task starts when one of the
\* max_workers threads is free
CanStart(i) == Cardinality({j \in DOMAIN tasks : Running(j)}) < max_workers

\* a worker thread takes the next work item off the queue, in submission order
TaskStart(i) ==
    /\ pc = "ev_pool"
    /\ tasks[i].pc = "queued"
    /\ \A j \in 1..(i - 1) : tasks[j].pc # "queued"
    /\ CanStart(i)
    /\ tasks' = [tasks EXCEPT ![i].pc = "started"]
    /\ UNCHANGED <<hist, envVars, db, environ, argType, io, pc, exit, run, baseline, comp_i,
                   match_list, total_matches, match_id, txn, global_counter,
                   progress_lock, print_lock, out>>

\* variant: the connection is in autocommit mode, so what the statement had
\* written before it was rejected stays
RollbackKeepsWrites(T, written) == written

\* leaving "with psycopg2.connect(...) as conn" by an exception: the
\* transaction is rolled back, and the table is as it was before the worker
Rollback(T, written) == T

\* the rows execute_values had sent when the server rejected the write: all
\* but the last one
SentBeforeFault(rows) == SubSeq(rows, 1, Len(rows) - 1)

\* variant: the tasks use one connection made once for the pool
ConnectionIdShared(i) == 1

\* psycopg2.connect(DATABASE_URL) inside load_single_match: every call makes a
\* new connection, here numbered after the task that made it
ConnectionId(i) == i

\* what becomes of a connection whose last reference is dropped: a finaliser
\* of the interpreter may close it
Released(conn) == IF conn.state = "open" THEN [conn EXCEPT !.state = "closed"] ELSE conn

\* comp_id, season_id, match = match_info; match_id = match["match_id"], which
\* raises KeyError outside the try; then psycopg2.connect(DATABASE_URL), which
\* returns a connection or raises into the except
TaskConnect(i) ==
    /\ pc = "ev_pool"
    /\ tasks[i].pc = "started"
    /\ LET rec == tasks[i].item[3] IN
          IF "match_id" \notin DOMAIN rec
          THEN /\ tasks' = [tasks EXCEPT ![i].pc = "raised"]
               /\ io' = io
          ELSE IF dbFault[rec.match_id] = "connect"
          THEN /\ tasks' = [tasks EXCEPT ![i].pc = "failed", ![i].match_id = rec.match_id]
               /\ io' = io \cup {"db"}
          ELSE /\ tasks' = [tasks EXCEPT ![i].pc = "connected",
                                         ![i].match_id = rec.match_id,
                                         ![i].conn = [id |-> ConnectionId(i),
                                                      state |-> "open"]]
               /\ io' = io \cup {"db"}
    /\ hist' = Loaded(hist, FALSE)
    /\ UNCHANGED <<envVars, db, environ, argType, pc, exit, run, baseline, comp_i,
                   match_list, total_matches, match_id, txn, global_counter,
                   progress_lock, print_lock, out>>

\* data = json.load(s3.get_object(...)); rows_to_insert = [... for event in data]
\* A fetch that fails and an event that makes the comprehension raise leave
\* the with block by the exception: nothing was written, the rollback is empty
TaskFetch(i) ==
    /\ pc = "ev_pool"
    /\ tasks[i].pc = "connected"
    /\ LET m == tasks[i].match_id IN
          IF ~Fetched(eventRes[m]) \/ RowsRaise(eventRes[m].body)
          THEN tasks' = [tasks EXCEPT ![i].pc = "failed"]
          ELSE tasks' = [tasks EXCEPT ![i].pc = "fetched",
                                      ![i].rows_to_insert = RowsToInsert(m, eventRes[m].body)]
    /\ io' = io \cup {"s3"}
    /\ hist' = Loaded(hist, FALSE)
    /\ UNCHANGED <<envVars, db, environ, argType, pc, exit, run, baseline, comp_i,
                   match_list, total_matches, match_id, txn, global_counter,
                   progress_lock, print_lock, out>>

\* if rows_to_insert: execute_values(cur, "INSERT ... ON CONFLICT DO NOTHING", rows_to_insert)
\* The rows the statement inserts are in the task's transaction, where no other
\* connection sees them.  A write the server rejects raises: the with block
\* is left by the exception and the transaction is rolled back.
TaskWrite(i) ==
    /\ pc = "ev_pool"
    /\ tasks[i].pc = "fetched"
    /\ LET m == tasks[i].match_id
           rows == tasks[i].rows_to_insert
       IN  IF rows = <<>>
           THEN /\ tasks' = [tasks EXCEPT ![i].pc = "written"]
                /\ db' = db
           ELSE IF dbFault[m] = "write"
           THEN /\ tasks' = [tasks EXCEPT ![i].pc = "failed", ![i].batch = rows]
                /\ db' = [db EXCEPT !.events =
                              Rollback(@, InsertEventsDoNothing(@, SentBeforeFault(rows), 1))]
           ELSE /\ tasks' = [tasks EXCEPT ![i].pc = "written", ![i].batch = rows,
                                          ![i].pending =
                                              InsertEventsDoNothing(db.events, rows, 1)
                                                  (-) db.events]
                /\ db' = db
    /\ hist' = Loaded(hist, tasks[i].rows_to_insert # <<>>)
    /\ UNCHANGED <<envVars, environ, argType, io, pc, exit, run, baseline, comp_i,
                   match_list, total_matches, match_id, txn, global_counter,
                   progress_lock, print_lock, out>>

\* end of "with psycopg2.connect(...) as conn": conn.commit(); the rows of the
\* task's transaction become visible together
TaskCommit(i) ==
    /\ pc = "ev_pool"
    /\ tasks[i].pc = "written"
    /\ db' = [db EXCEPT !.events = @ (+) tasks[i].pending]
    /\ tasks' = [tasks EXCEPT ![i].pc = "committed", ![i].pending = EmptyBag]
    /\ UNCHANGED <<hist, envVars, environ, argType, io, pc, exit, run, baseline, comp_i,
                   match_list, total_matches, match_id, txn, global_counter,
                   progress_lock, print_lock, out>>

\* variant: the counter is updated without waiting for progress_lock
CanLockProgressUnguarded(i) == TRUE

\* with progress_lock:
CanLockProgress(i) == progress_lock = 0

TaskLockProgress(i) ==
    /\ pc = "ev_pool"
    /\ tasks[i].pc = "committed"
    /\ CanLockProgress(i)
    /\ progress_lock' = i
    /\ tasks' = [tasks EXCEPT ![i].pc = "locked"]
    /\ UNCHANGED <<hist, envVars, db, environ, argType, io, pc, exit, run, baseline, comp_i,
                   match_list, total_matches, match_id, txn, global_counter,
                   print_lock, out>>

\* global_counter += 1 : the read of the global
TaskLoadCounter(i) ==
    /\ pc = "ev_pool"
    /\ tasks[i].pc = "locked"
    /\ tasks' = [tasks EXCEPT ![i].pc = "loaded", ![i].loaded = global_counter]
    /\ UNCHANGED <<hist, envVars, db, environ, argType, io, pc, exit, run, baseline, comp_i,
                   match_list, total_matches, match_id, txn, global_counter,
                   progress_lock, print_lock, out>>

\* global_counter += 1 : the store of the sum
TaskStoreCounter(i) ==
    /\ pc = "ev_pool"
    /\ tasks[i].pc = "loaded"
    /\ global_counter' = tasks[i].loaded + 1
    /\ tasks' = [tasks EXCEPT ![i].pc = "stored"]
    /\ UNCHANGED <<hist, envVars, db, environ, argType, io, pc, exit, run, baseline, comp_i,
                   match_list, total_matches, match_id, txn, progress_lock,
                   print_lock, out>>

\* variant: printing does not wait for print_lock
CanLockPrintUnguarded(i) == TRUE

\* with print_lock:
CanLockPrint(i) == print_lock = 0

\* variant: print_lock is acquired without "with" and never released
PrintLockKeptAtExit(i) == print_lock

\* leaving "with print_lock": the lock is released, whether the block ends
\* normally or by an exception
PrintLockAtExit(i) == 0

\* variant: the success line is printed after the "with progress_lock" block
ProgressLockReleasedBeforePrint(i) == 0

\* "with print_lock" is nested in "with progress_lock": the task still holds
\* progress_lock while it prints
ProgressLockWhilePrinting(i) == progress_lock

\* with print_lock: (inside progress_lock, on success)
TaskLockPrint(i) ==
    /\ pc = "ev_pool"
    /\ tasks[i].pc = "stored"
    /\ CanLockPrint(i)
    /\ print_lock' = i
    /\ progress_lock' = ProgressLockWhilePrinting(i)
    /\ tasks' = [tasks EXCEPT ![i].pc = "printing"]
    /\ UNCHANGED <<hist, envVars, db, environ, argType, io, pc, exit, run, baseline, comp_i,
                   match_list, total_matches, match_id, txn, global_counter, out>>

\* print("Match ... inserted (global_counter/total_matches ...)"); end of
\* "with print_lock": print_lock is released, progress_lock is still held
TaskPrintSuccess(i) ==
    /\ pc = "ev_pool"
    /\ tasks[i].pc = "printing"
    /\ out' = Append(out, Line("inserted", tasks[i].match_id, global_counter))
    /\ print_lock' = PrintLockAtExit(i)
    /\ tasks' = [tasks EXCEPT ![i].pc = "printed"]
    /\ UNCHANGED <<hist, envVars, db, environ, argType, io, pc, exit, run, baseline, comp_i,
                   match_list, total_matches, match_id, txn, global_counter,
                   progress_lock>>

\* end of "with progress_lock": progress_lock is released
TaskUnlockProgress(i) ==
    /\ pc = "ev_pool"
    /\ tasks[i].pc = "printed"
    /\ progress_lock' = 0
    /\ tasks' = [tasks EXCEPT ![i].pc = "unlocked"]
    /\ UNCHANGED <<hist, envVars, db, environ, argType, io, pc, exit, run, baseline, comp_i,
                   match_list, total_matches, match_id, txn, global_counter,
                   print_lock, out>>

\* load_single_match returns, after the success line or after the except
\* handler: the worker is free again.  The function never calls conn.close()
\* and the "with" block has only ended the transaction, so the connection is
\* still open when the locals conn and cur go away; whether it is closed then
\* is up to the interpreter (reference counting closes it at once, a
\* reference kept by a traceback or another collector leaves it open).
TaskReturn(i) ==
    /\ pc = "ev_pool"
    /\ tasks[i].pc \in {"unlocked", "reported"}
    /\ \E finalised \in BOOLEAN :
          tasks' = [tasks EXCEPT
                       ![i].pc = IF tasks[i].pc = "unlocked" THEN "done" ELSE "caught",
                       ![i].conn = IF finalised THEN Released(@) ELSE @]
    /\ UNCHANGED <<hist, envVars, db, environ, argType, io, pc, exit, run, baseline, comp_i,
                   match_list, total_matches, match_id, txn, global_counter,
                   progress_lock, print_lock, out>>

\* except Exception: with print_lock:
TaskLockPrintFailure(i) ==
    /\ pc = "ev_pool"
    /\ tasks[i].pc = "failed"
    /\ CanLockPrint(i)
    /\ print_lock' = i
    /\ tasks' = [tasks EXCEPT ![i].pc = "reporting"]
    /\ UNCHANGED <<hist, envVars, db, environ, argType, io, pc, exit, run, baseline, comp_i,
                   match_list, total_matches, match_id, txn, global_counter,
                   progress_lock, out>>

\* print("Failed to load events for match ..."); end of "with print_lock":
\* print_lock is released
TaskPrintFailure(i) ==
    /\ pc = "ev_pool"
    /\ tasks[i].pc = "reporting"
    /\ out' = Append(out, Line("failed", tasks[i].match_id, 0))
    /\ print_lock' = PrintLockAtExit(i)
    /\ tasks' = [tasks EXCEPT ![i].pc = "reported"]
    /\ UNCHANGED <<hist, envVars, db, environ, argType, io, pc, exit, run, baseline, comp_i,
                   match_list, total_matches, match_id, txn, global_counter,
                   progress_lock>>

\* end of "with ThreadPoolExecutor(...)": shutdown(wait=True)
EventsPoolShutdown ==
    /\ pc = "ev_pool"
    /\ \A i \in DOMAIN tasks : Finished(i)
    /\ pc' = "seq_schema"
    /\ UNCHANGED <<hist, envVars, db, environ, argType, io, exit, run, baseline, comp_i,
                   match_list, total_matches, match_id, txn, tasks, global_counter,
                   progress_lock, print_lock, out>>

(***************************************************************************)
(* load_events, second part: the statements after the pool, which load    *)
(* the events again one INSERT at a time on one connection.               *)
(***************************************************************************)
\* with psycopg2.connect(...): CREATE TABLE IF NOT EXISTS events (...)
SeqEnsureSchema ==
    /\ pc = "seq_schema"
    /\ hist' = Created(hist)
    /\ io' = io \cup {"db"}
    /\ txn' = OpenTxn
    /\ pc' = "seq_manifest"
    /\ UNCHANGED <<envVars, db, environ, argType, exit, run, baseline, comp_i,
                   match_list, total_matches, match_id, tasks, global_counter,
                   progress_lock, print_lock, out>>

\* competitions = json.load(s3.get_object(... competitions.json))
SeqFetchManifest ==
    /\ pc = "seq_manifest"
    /\ hist' = Enter(hist, "Resolving")
    /\ io' = io \cup {"s3"}
    /\ comp_i' = 1
    /\ pc' = "seq_loop"
    /\ UNCHANGED <<envVars, db, environ, argType, exit, run, baseline,
                   match_list, total_matches, match_id, txn, tasks, global_counter,
                   progress_lock, print_lock, out>>

\* cur.execute("INSERT INTO events (...) VALUES (%s, %s, %s, %s)") : no ON CONFLICT
SeqInsertEvent(T, st, row) ==
    IF st.txn.state = "aborted"
    THEN Raise(st)
    ELSE IF EventConflict(T (+) st.txn.writes, row)
    THEN [st EXCEPT !.raised = TRUE, !.txn.state = "aborted"]
    ELSE [st EXCEPT !.txn.writes = AddRow(@, row)]

\* for event in data: cur.execute(...)
RECURSIVE SeqEvents(_, _, _, _, _)
SeqEvents(T, st, m, data, k) ==
    IF k > Len(data) \/ st.raised THEN st
    ELSE IF EventRaises(data[k]) THEN Raise(st)
    ELSE SeqEvents(T, SeqInsertEvent(T, st, EventRow(m, data[k])), m, data, k + 1)

\* one iteration of "for match_index, match in enumerate(matches)"
SeqMatch(T, st, rec) ==
    IF "match_id" \notin DOMAIN rec
    THEN Raise(st)
    ELSE LET m == rec.match_id
             bound == [st EXCEPT !.match_id = m]
         IN  IF ~Fetched(eventRes[m])
             THEN Raise(bound)
             ELSE LET after == SeqEvents(T, bound, m, eventRes[m].body, 1)
                  IN  IF after.raised THEN after
                      ELSE [after EXCEPT !.out = Append(@, Line("seq_inserted", m, 0))]

RECURSIVE SeqMatches(_, _, _, _)
SeqMatches(T, st, matches, k) ==
    IF k > Len(matches) \/ st.raised THEN st
    ELSE SeqMatches(T, SeqMatch(T, st, matches[k]), matches, k + 1)

\* the try block of one pair: fetch the match list, then the matches
SeqTry(T, st, res) ==
    IF Fetched(res) THEN SeqMatches(T, st, res.body, 1) ELSE Raise(st)

\* except Exception as e: print(f"Failed to load events for match {match_id}: {e}")
\* match_id is a local of load_events: reading it unbound raises UnboundLocalError
HandlerRaises(st) == st.raised /\ st.match_id = Unbound

\* one iteration of "for comp_index, comp in enumerate(competitions)"
SeqPair ==
    /\ pc = "seq_loop"
    /\ comp_i <= Len(manifest)
    /\ LET st == SeqTry(db.events,
                        [txn |-> txn, match_id |-> match_id, out |-> out, raised |-> FALSE],
                        matchRes[comp_i])
       IN  IF HandlerRaises(st)
           THEN /\ exit' = "error"
                /\ pc' = "end"
                /\ txn' = NoTxn
                /\ hist' = Loaded(hist, st.txn # txn)
                /\ UNCHANGED <<match_id, out, comp_i>>
           ELSE /\ txn' = st.txn
                /\ hist' = Loaded(hist, st.txn # txn)
                /\ match_id' = st.match_id
                /\ out' = IF st.raised
                          THEN Append(st.out, Line("seq_failed", st.match_id, 0))
                          ELSE st.out
                /\ comp_i' = comp_i + 1
                /\ UNCHANGED <<exit, pc>>
    \* total_matches = len(matches): the local of load_events is bound again
    /\ total_matches' = IF Fetched(matchRes[comp_i])
                        THEN Len(matchRes[comp_i].body) ELSE total_matches
    /\ UNCHANGED <<envVars, db, environ, argType, io, run, baseline, match_list,
                   tasks, global_counter, progress_lock, print_lock>>

\* end of the loop, end of "with psycopg2.connect(...)", print("Done: events loaded.")
SeqCommit ==
    /\ pc = "seq_loop"
    /\ hist' = Enter(hist, "Completed")
    /\ comp_i > Len(manifest)
    /\ db' = [db EXCEPT !.events = Commit(@, txn)]
    /\ txn' = NoTxn
    /\ exit' = "ok"
    /\ pc' = "end"
    /\ UNCHANGED <<envVars, environ, argType, io, run, baseline, comp_i, match_list,
                   total_matches, match_id, tasks, global_counter, progress_lock,
                   print_lock, out>>

(***************************************************************************)
(* The program is started again on the same source data and database.     *)
(***************************************************************************)
Rerun ==
    /\ pc = "end"
    /\ run < MaxRuns
    /\ run' = run + 1
    /\ baseline' = db
    /\ pc' = "dispatch"
    /\ exit' = "running"
    /\ io' = {}
    /\ comp_i' = 0
    /\ match_list' = <<>>
    /\ total_matches' = 0
    /\ match_id' = Unbound
    /\ txn' = NoTxn
    /\ tasks' = <<>>
    /\ global_counter' = 0
    /\ progress_lock' = 0
    /\ print_lock' = 0
    /\ out' = <<>>
    /\ hist' = NoHistory
    /\ UNCHANGED <<envVars, db, environ, argType>>

EventsNext ==
    \/ EventsEnsureSchema
    \/ EventsFetchManifest
    \/ EventsResolvePair
    \/ EventsSubmit
    \/ \E i \in DOMAIN tasks :
          \/ TaskStart(i)
          \/ TaskConnect(i)
          \/ TaskFetch(i)
          \/ TaskWrite(i)
          \/ TaskCommit(i)
          \/ TaskLockProgress(i)
          \/ TaskLoadCounter(i)
          \/ TaskStoreCounter(i)
          \/ TaskLockPrint(i)
          \/ TaskPrintSuccess(i)
          \/ TaskUnlockProgress(i)
          \/ TaskReturn(i)
          \/ TaskLockPrintFailure(i)
          \/ TaskPrintFailure(i)
    \/ EventsPoolShutdown
    \/ SeqEnsureSchema
    \/ SeqFetchManifest
    \/ SeqPair
    \/ SeqCommit

CompetitionsNext ==
    \/ CompFetchManifest
    \/ CompEnsureSchema
    \/ CompInsert
    \/ CompCommit

MatchesNext ==
    \/ MatchesEnsureSchema
    \/ MatchesFetchManifest
    \/ MatchesPair
    \/ MatchesCommit

LineupsNext ==
    \/ LineupsEnsureSchema
    \/ LineupsFetchManifest
    \/ LineupsPair
    \/ LineupsCommit

Next ==
    \/ Dispatch
    \/ CompetitionsNext
    \/ MatchesNext
    \/ LineupsNext
    \/ EventsNext
    \/ Rerun

\* the program, run on any of the four job types
Spec == Init /\ [][Next]_vars

\* the matches job alone
MatchesJobInit == db = EmptyDb /\ InitProcess /\ InitMatches
MatchesJobNext == Dispatch \/ MatchesNext \/ Rerun
SpecMatches == MatchesJobInit /\ [][MatchesJobNext]_vars

\* the lineups job alone
LineupsJobInit == db = EmptyDb /\ InitProcess /\ InitLineups
LineupsJobNext == Dispatch \/ LineupsNext \/ Rerun
SpecLineups == LineupsJobInit /\ [][LineupsJobNext]_vars

\* the competitions job alone, on manifests with records that lack a field
CompetitionsJobInit ==
    /\ db = EmptyDb
    /\ InitProcess
    /\ argType = "competitions"
    /\ manifest \in Manifests
    /\ matchRes = AllMissing(Pairs)
    /\ eventRes = AllMissing(MatchIds)
    /\ lineupRes = AllMissing(MatchIds)
    /\ dbFault = NoDbFault
CompetitionsJobNext == Dispatch \/ CompetitionsNext \/ Rerun
SpecCompetitions == CompetitionsJobInit /\ [][CompetitionsJobNext]_vars

\* the events job up to the submission of the resolved list to the pool
ResolveNext ==
    \/ Dispatch
    \/ EventsEnsureSchema
    \/ EventsFetchManifest
    \/ EventsResolvePair
    \/ EventsSubmit
EventsJobInit == db = EmptyDb /\ InitProcess /\ InitEvents
\* resolution reads the manifest and the match lists only
ResolveInit ==
    /\ db = EmptyDb
    /\ InitProcess
    /\ argType = "events"
    /\ \E count \in Layouts, gone \in SUBSET Pairs, bad \in SUBSET MatchIds :
          /\ \A p \in gone : count[p] = 0
          /\ bad \subseteq 1..SumTo(count, MaxPairs)
          /\ matchRes = MatchLists(count, gone, bad)
    /\ eventRes = AllMissing(MatchIds)
    /\ lineupRes = AllMissing(MatchIds)
    /\ manifest = Manifest
    /\ dbFault = NoDbFault
SpecResolve == ResolveInit /\ [][ResolveNext]_vars

EventsJobNext == Dispatch \/ EventsNext \/ Rerun
SpecEvents == EventsJobInit /\ [][EventsJobNext]_vars

\* the events job on the matches of one pair, each with one event or with no
\* event resource, and a database that may refuse the connection or the
\* write: the interleavings of the workers
WorkersInit ==
    /\ db = EmptyDb
    /\ InitProcess
    /\ argType = "events"
    /\ manifest = Manifest
    /\ \E n \in 0..MaxMatches, gone \in SUBSET MatchIds :
          /\ gone \subseteq 1..n
          /\ matchRes = MatchLists([p \in Pairs |-> IF p = 1 THEN n ELSE 0], {}, {})
          /\ eventRes = [m \in MatchIds |->
                            IF m \in (1..n) \ gone
                            THEN [status |-> "ok", body |-> <<[timestamp |-> Some("ts")]>>]
                            ELSE [status |-> "missing", body |-> <<>>]]
          /\ dbFault \in [MatchIds -> {"none", "connect", "write"}]
          /\ \A m \in MatchIds \ (1..n) : dbFault[m] = "none"
    /\ lineupRes = AllMissing(MatchIds)
SpecWorkers == WorkersInit /\ [][EventsJobNext]_vars

\* the same under a scheduler that always runs some thread that can run
SpecWorkersFair == WorkersInit /\ [][EventsJobNext]_vars /\ WF_vars(EventsJobNext)

\* the events job on the matches of one pair whose event documents, where
\* there is one, hold MaxEvents events, the third with the index of the first,
\* and a database that may refuse the connection or the write
BatchDoc(n) ==
    [k \in 1..n |-> [index |-> Some(2 * ((k - 1) % 2)), timestamp |-> Some("ts"),
                     type |-> [name |-> Some("Pass")]]]

BatchesInit ==
    /\ db = EmptyDb
    /\ InitProcess
    /\ argType = "events"
    /\ manifest = Manifest
    /\ \E n \in 0..MaxMatches :
          /\ matchRes = MatchLists([p \in Pairs |-> IF p = 1 THEN n ELSE 0], {}, {})
          /\ eventRes \in [MatchIds -> {[status |-> "missing", body |-> <<>>],
                                         [status |-> "ok", body |-> BatchDoc(MaxEvents)]}]
          /\ \A m \in MatchIds \ (1..n) : eventRes[m].status = "missing"
          /\ dbFault \in [MatchIds -> {"none", "connect", "write"}]
          /\ \A m \in MatchIds \ (1..n) : dbFault[m] = "none"
    /\ lineupRes = AllMissing(MatchIds)
SpecBatches == BatchesInit /\ [][EventsJobNext]_vars

\* the program, run also on a match list longer than the pool is wide
PoolTasks == max_workers + 1
InitPoolWide ==
    /\ argType = "events"
    /\ matchRes = [p \in Pairs |->
                      IF p = 1
                      THEN [status |-> "ok",
                            body |-> [k \in 1..PoolTasks |-> MatchRecord(k, FALSE)]]
                      ELSE [status |-> "missing", body |-> <<>>]]
    /\ eventRes = AllMissing(MatchIds)
    /\ lineupRes = AllMissing(MatchIds)
    /\ manifest = Manifest
    /\ dbFault = NoDbFault
PoolInit == Init \/ (db = EmptyDb /\ InitProcess /\ InitPoolWide)
SpecPool == PoolInit /\ [][Next]_vars

\* the events job on one match whose events have every shape
NormalizeInit ==
    /\ db = EmptyDb
    /\ InitProcess
    /\ argType = "events"
    /\ matchRes = MatchLists([p \in Pairs |-> IF p = 1 THEN 1 ELSE 0], {}, {})
    /\ \E doc \in EventShapeDocs :
          eventRes = [m \in MatchIds |-> IF m = 1 THEN [status |-> "ok", body |-> doc]
                                         ELSE [status |-> "missing", body |-> <<>>]]
    /\ lineupRes = AllMissing(MatchIds)
    /\ manifest = Manifest
    /\ dbFault = NoDbFault
NormalizeNext == Dispatch \/ EventsNext
SpecNormalize == NormalizeInit /\ [][NormalizeNext]_vars


(***************************************************************************)
(* Module initialisation and the command line, from the start of the      *)
(* process to the dispatch on args.type.                                  *)
(***************************************************************************)
\* what may follow --type on the command line; "absent" is no --type at all
ArgValues == JobTypes \cup {"absent", "unknown"}

CliInit ==
    /\ db = EmptyDb
    /\ matchRes = AllMissing(Pairs)
    /\ eventRes = AllMissing(MatchIds)
    /\ lineupRes = AllMissing(MatchIds)
    /\ manifest = Manifest
    /\ dbFault = NoDbFault
    /\ environ \in [EnvNames -> EnvValues]
    /\ argType \in ArgValues
    /\ io = {}
    /\ pc = "import"
    /\ exit = "running"
    /\ run = 1
    /\ baseline = EmptyDb
    /\ comp_i = 0
    /\ match_list = <<>>
    /\ total_matches = 0
    /\ match_id = Unbound
    /\ txn = NoTxn
    /\ tasks = <<>>
    /\ global_counter = 0
    /\ progress_lock = 0
    /\ print_lock = 0
    /\ out = <<>>
    /\ hist = NoHistory

cliFrame == <<envVars, db, run, baseline, comp_i, match_list, total_matches, match_id,
              txn, tasks, global_counter, progress_lock, print_lock, out, hist>>

\* load_dotenv(): a variable of the .env file is added to the environment
\* unless the environment already has it, with whatever value (override is
\* off); ssm = boto3.client("ssm", ...) builds a client and calls nothing
LoadDotenv ==
    /\ pc = "import"
    /\ \E file \in [EnvNames -> EnvValues] :
          environ' = [n \in EnvNames |-> IF environ[n] = None THEN file[n] ELSE environ[n]]
    /\ pc' = "database_url"
    /\ UNCHANGED <<cliFrame, argType, io, exit>>

\* os.getenv(name) or get_ssm_param(...): the parameter store is called when
\* the variable is unset or empty, and the call may raise
ResolveSecret(name, next) ==
    IF Truthy(Getenv(environ, name))
    THEN /\ pc' = next
         /\ UNCHANGED <<io, exit>>
    ELSE /\ io' = io \cup {"ssm"}
         /\ \E answered \in BOOLEAN :
               IF answered
               THEN pc' = next /\ exit' = exit
               ELSE pc' = "end" /\ exit' = "error"

\* DATABASE_URL = os.getenv("DATABASE_URL") or get_ssm_param("/football/DATABASE_URL")
ResolveDatabaseUrl ==
    /\ pc = "database_url"
    /\ ResolveSecret("DATABASE_URL", "bucket_name")
    /\ UNCHANGED <<cliFrame, environ, argType>>

\* S3_BUCKET_NAME = os.getenv("S3_BUCKET_NAME") or get_ssm_param("/football/S3_BUCKET_NAME")
ResolveBucketName ==
    /\ pc = "bucket_name"
    /\ ResolveSecret("S3_BUCKET_NAME", "s3_client")
    /\ UNCHANGED <<cliFrame, environ, argType>>

\* s3 = boto3.client("s3", ...), with or without explicit credentials
MakeS3Client ==
    /\ pc = "s3_client"
    /\ pc' = "parse_args"
    /\ UNCHANGED <<cliFrame, environ, argType, io, exit>>

\* parser.add_argument("--type", choices=[...], default="competitions"); parse_args()
ParseArgs ==
    /\ pc = "parse_args"
    /\ IF argType = "absent"
       THEN argType' = "competitions" /\ pc' = "dispatch" /\ exit' = exit
       ELSE IF argType \in JobTypes
       THEN argType' = argType /\ pc' = "dispatch" /\ exit' = exit
       ELSE argType' = argType /\ pc' = "end" /\ exit' = "usage"
    /\ UNCHANGED <<cliFrame, environ, io>>

CliNext ==
    \/ LoadDotenv
    \/ ResolveDatabaseUrl
    \/ ResolveBucketName
    \/ MakeS3Client
    \/ ParseArgs

SpecCli == CliInit /\ [][CliNext]_vars


(***************************************************************************)
(* Properties.                                                            *)
(***************************************************************************)
EventsJob == argType = "events"
PoolFinished == EventsJob /\ pc \in {"seq_schema", "seq_manifest", "seq_loop", "end"}
ListResolved == EventsJob /\ pc \in {"ev_pool", "seq_schema", "seq_manifest", "seq_loop"}
JobEnded == pc = "end"

\* the match ids of the records of the match lists that can be fetched
ResolvedMatches ==
    {m \in MatchIds : \E p \in Pairs : /\ Fetched(matchRes[p])
                                       /\ \E k \in 1..Len(matchRes[p].body) :
                                             /\ "match_id" \in DOMAIN matchRes[p].body[k]
                                             /\ matchRes[p].body[k].match_id = m}
\* every record of every fetched match list has its match_id
RecordsWellFormed ==
    \A p \in Pairs : \A k \in 1..Len(matchRes[p].body) : "match_id" \in DOMAIN matchRes[p].body[k]
DatabaseHealthy == \A m \in MatchIds : dbFault[m] = "none"
\* every lineup document has its team names, lineups and player names
LineupDocsWellFormed ==
    \A m \in MatchIds : \A k \in 1..Len(lineupRes[m].body) :
        {"team_name", "lineup"} \subseteq DOMAIN lineupRes[m].body[k]
OneFetchFails(res) == Cardinality({m \in ResolvedMatches : ~Fetched(res[m])}) = 1

\* C1: in the events job, when the pool has finished and no task failed, the
\* progress counter equals the number of resolved matches, whatever the
\* interleaving of the workers was.
ProgressCounterExact ==
    (PoolFinished /\ \A i \in DOMAIN tasks : tasks[i].pc = "done")
        => global_counter = Len(match_list)

ProgressCounterExactWitness ==
    /\ PoolFinished
    /\ Len(match_list) >= 2
    /\ \A i \in DOMAIN tasks : tasks[i].pc = "done"
    /\ global_counter = Len(match_list)

\* C2: when the matches job has run a second time on the same source data, the
\* matches table holds exactly the rows the first run left.
MatchesRerunChangesNothing ==
    (argType = "matches" /\ run >= 2 /\ JobEnded) => db.matches = baseline.matches

MatchesRerunWitness ==
    /\ argType = "matches" /\ run = 2 /\ JobEnded
    /\ BagCardinality(db.matches) >= 2
    /\ db.matches = baseline.matches

\* C3: when the events job has run a second time on the same source data and
\* every fetch succeeded both times, the events table has as many rows as the
\* first run left.
EventsRerunSameRowCount ==
    (/\ EventsJob /\ run >= 2 /\ JobEnded
     /\ \A p \in Pairs : Fetched(matchRes[p])
     /\ RecordsWellFormed
     /\ \A m \in ResolvedMatches : Fetched(eventRes[m])
     /\ DatabaseHealthy)
        => BagCardinality(db.events) = BagCardinality(baseline.events)

\* C4: when the lineups job or the events job has ended and the fetch failed for
\* exactly one resolved match (nothing else went wrong), every row of every
\* other resolved match is in the committed table.
OtherMatchesCommitted ==
    /\ (argType = "lineups" /\ JobEnded /\ RecordsWellFormed /\ DatabaseHealthy
           /\ LineupDocsWellFormed /\ OneFetchFails(lineupRes))
          => \A m \in ResolvedMatches : Fetched(lineupRes[m]) =>
                LET rows == LineupRows(m, lineupRes[m].body, 1)
                IN  \A k \in 1..Len(rows) : BagIn(rows[k], db.lineups)
    /\ (EventsJob /\ JobEnded /\ RecordsWellFormed /\ DatabaseHealthy
           /\ OneFetchFails(eventRes))
          => \A m \in ResolvedMatches : Fetched(eventRes[m]) =>
                \A k \in 1..Len(eventRes[m].body) :
                    BagIn(EventRow(m, eventRes[m].body[k]), db.events)

OtherMatchesCommittedWitness ==
    /\ EventsJob /\ JobEnded /\ run = 1
    /\ RecordsWellFormed /\ DatabaseHealthy /\ OneFetchFails(eventRes)
    /\ \E m \in ResolvedMatches :
          /\ Fetched(eventRes[m])
          /\ Len(eventRes[m].body) = 2
          /\ \A k \in 1..2 : BagIn(EventRow(m, eventRes[m].body[k]), db.events)

\* C5: the resolved match list of the events job is the concatenation, in
\* manifest order, of the (competition_id, season_id, match) tuples of every
\* pair whose match list could be fetched, each in source order; a pair whose
\* fetch failed contributes nothing.
RECURSIVE ExpectedMatchList(_)
ExpectedMatchList(p) ==
    IF p > Len(manifest) THEN <<>>
    ELSE (IF Fetched(matchRes[p])
          THEN [k \in 1..Len(matchRes[p].body) |->
                   <<manifest[p].competition_id, manifest[p].season_id, matchRes[p].body[k]>>]
          ELSE <<>>) \o ExpectedMatchList(p + 1)

ResolvedListFlatOrdered == ListResolved => match_list = ExpectedMatchList(1)

ResolvedListWitness ==
    /\ ListResolved
    /\ ~Fetched(matchRes[1])
    /\ Len(match_list) = 2
    /\ match_list[1][3] # match_list[2][3]

\* C6: when the pool has finished, every task that did not succeed has caught
\* its failure inside the task and printed a failure line naming its match id.
TaskFailureCaughtAndLogged ==
    PoolFinished =>
        \A i \in DOMAIN tasks :
            tasks[i].pc # "done" =>
                /\ tasks[i].pc = "caught"
                /\ \E n \in 1..Len(out) :
                      out[n].line = "failed" /\ out[n].match = tasks[i].match_id

\* C7: a --type value outside the four job types is rejected before any remote
\* I/O: no parameter-store call, object-store read or database connection.
UnknownTypeRejectedBeforeIO == exit = "usage" => io = {}

\* C8: after the competitions job has run twice on the same manifest, the
\* competitions table holds exactly one row per (competition_id, season_id).
CompetitionsOneRowPerKey ==
    (argType = "competitions" /\ run >= 2 /\ JobEnded) =>
        \A p \in Pairs : CopiesIn(CompetitionRow(Manifest[p]), db.competitions) = 1

\* C9: every job that got past the manifest fetch returns normally, whichever
\* match-list and per-match resources fail to fetch.
JobRunsToCompletion == JobEnded => exit = "ok"

\* C10: the batch a task submits holds one row per event of the match's
\* resource, in the order of the resource: row k carries the index, timestamp
\* and type name of event k, nothing reordered, added or removed.
BatchKeepsSourceOrder ==
    \A i \in DOMAIN tasks :
        (/\ tasks[i].pc \notin {"queued", "started", "connected", "fetched", "raised"}
         /\ dbFault[tasks[i].match_id] # "connect"
         /\ Fetched(eventRes[tasks[i].match_id]))
        => LET data == eventRes[tasks[i].match_id].body
               batch == tasks[i].batch
           IN  /\ Len(batch) = Len(data)
               /\ \A k \in 1..Len(data) :
                     /\ batch[k][1] = tasks[i].match_id
                     /\ batch[k][2] = (IF "index" \in DOMAIN data[k]
                                       THEN data[k]["index"] ELSE <<>>)
                     /\ batch[k][3] = data[k]["timestamp"]

BatchKeepsSourceOrderWitness ==
    \E i \in DOMAIN tasks :
        /\ tasks[i].pc = "done"
        /\ Len(tasks[i].batch) = 2
        /\ tasks[i].batch[1][2] = <<2>>
        /\ tasks[i].batch[2][2] = <<0>>

\* C11: normalisation never fails on a missing field: whatever of index,
\* timestamp, the type object and its name is present, absent or null in the
\* events of a match, the task does not fail and its batch has, for event k,
\* the row (match_id, index or null, timestamp or null, type name or null).
FieldOrNull(d, f) == IF f \in DOMAIN d THEN d[f] ELSE <<>>
TypeNameOrNull(e) ==
    IF "type" \in DOMAIN e /\ "name" \in DOMAIN e["type"] THEN e["type"]["name"] ELSE <<>>

NormalizationNeverFails ==
    \A i \in DOMAIN tasks :
        (/\ tasks[i].pc \notin {"queued", "started", "connected", "fetched", "raised"}
         /\ dbFault[tasks[i].match_id] = "none"
         /\ Fetched(eventRes[tasks[i].match_id]))
        => LET data == eventRes[tasks[i].match_id].body
           IN  /\ tasks[i].pc \notin {"failed", "reporting", "reported", "caught"}
               /\ tasks[i].batch =
                      [k \in 1..Len(data) |->
                          <<tasks[i].match_id, FieldOrNull(data[k], "index"),
                            FieldOrNull(data[k], "timestamp"), TypeNameOrNull(data[k])>>]

\* C12: in every invocation the CREATE TABLE of the job's table is executed at
\* most once, and no data write is executed before it.
TableCreatedOnceBeforeWrites ==
    /\ hist.creates <= 1
    /\ hist.wrote => hist.creates >= 1

\* C13: a job enters its phases in the order EnsuringSchema, Resolving, loading
\* (fetching and writing resources), Completed, and enters none of them again
\* after a later one has started.
PhaseRank(phase) ==
    CASE phase = "EnsuringSchema" -> 1
      [] phase = "Resolving" -> 2
      [] phase = "Loading" -> 3
      [] OTHER -> 4

PhasesInOrder ==
    \A k \in 1..(Len(hist.phases) - 1) :
        PhaseRank(hist.phases[k]) < PhaseRank(hist.phases[k + 1])

\* C14: every worker task that reaches the database has a connection of its
\* own: no two tasks use the same connection, and a task that has finished,
\* by success or by failure, has left no connection open.
Connected(i) ==
    /\ tasks[i].pc \notin {"queued", "started", "raised"}
    /\ dbFault[tasks[i].match_id] # "connect"

OwnConnectionWitness ==
    \E i, j \in DOMAIN tasks :
        /\ tasks[i].pc = "done" /\ tasks[i].conn.state = "closed"
        /\ tasks[j].pc = "caught" /\ tasks[j].conn.state = "closed"
        /\ tasks[i].conn.id # tasks[j].conn.id

\* C15: while the pool runs, a task that reads or writes the counter holds
\* progress_lock and a task that prints holds print_lock, so no two tasks
\* update the counter at once and no two print at once.
HoldsProgressLock(i) == progress_lock = i
HoldsPrintLock(i) == print_lock = i
UpdatingCounter(i) == tasks[i].pc \in {"locked", "loaded", "stored"}
Printing(i) == tasks[i].pc \in {"printing", "reporting"}

CounterAndOutputExclusive ==
    /\ \A i \in DOMAIN tasks :
          /\ UpdatingCounter(i) => HoldsProgressLock(i)
          /\ Printing(i) => HoldsPrintLock(i)
    /\ Cardinality({i \in DOMAIN tasks : UpdatingCounter(i)}) <= 1
    /\ Cardinality({i \in DOMAIN tasks : Printing(i)}) <= 1

CounterAndOutputExclusiveWitness ==
    \E i, j \in DOMAIN tasks :
        /\ tasks[i].pc = "stored" /\ HoldsProgressLock(i)
        /\ tasks[j].pc = "reporting" /\ HoldsPrintLock(j)

\* C16: in the events job at most max_workers tasks are in progress at any
\* time; once resolved, the match list stays what the source data determine,
\* and entry i of it is the item of task i and of no other task; the other
\* three jobs create no task and work on the main thread alone.
PoolBoundedListFixed ==
    /\ Cardinality({i \in DOMAIN tasks : Running(i)}) <= max_workers
    /\ ListResolved =>
          /\ match_list = ExpectedMatchList(1)
          /\ Len(tasks) = Len(match_list)
          /\ \A i \in DOMAIN tasks : tasks[i].item = match_list[i]
    /\ ~EventsJob => tasks = <<>>

PoolBoundedWitness ==
    /\ Cardinality({i \in DOMAIN tasks : Running(i)}) = max_workers
    /\ \E i \in DOMAIN tasks : tasks[i].pc = "queued"
    /\ \A i \in DOMAIN tasks : tasks[i].item = match_list[i]

\* C17: in the competitions job a manifest record that lacks a required field
\* is skipped and is not fatal: the job completes, and the row of every
\* well-formed record of the manifest is committed.
MalformedCompetitionSkipped ==
    (argType = "competitions" /\ JobEnded) =>
        /\ exit = "ok"
        /\ \A p \in DOMAIN manifest :
              RequiredFields \subseteq DOMAIN manifest[p]
                  => BagIn(CompetitionRow(manifest[p]), db.competitions)

\* C18: in the matches job a record that lacks its home_team or away_team
\* object is the only record not written: every complete record of every
\* fetched match list, before or after such a record and in any pair, has its
\* row in the matches table when the job has ended.
RecordsHaveIds ==
    \A p \in Pairs : \A k \in 1..Len(matchRes[p].body) :
        {"match_id", "match_date"} \subseteq DOMAIN matchRes[p].body[k]

TeamlessRecordAloneSkipped ==
    (argType = "matches" /\ JobEnded /\ RecordsHaveIds) =>
        \A p \in Pairs : \A k \in 1..Len(matchRes[p].body) :
            LET rec == matchRes[p].body[k] IN
            (Fetched(matchRes[p]) /\ {"home_team", "away_team"} \subseteq DOMAIN rec)
                => BagIn(<<rec["match_id"], manifest[p].competition_id, manifest[p].season_id,
                           rec["match_date"], rec["home_team"]["home_team_name"],
                           rec["away_team"]["away_team_name"]>>, db.matches)

\* C19: in the lineups job a failure while one match is processed (a fetch
\* error, a malformed document, or a write the database rejects) is skipped:
\* the job ends normally and the lineup rows of every other match, earlier and
\* later, are committed.
LineupFailureSkipped ==
    (argType = "lineups" /\ JobEnded /\ RecordsWellFormed) =>
        /\ exit = "ok"
        /\ \A m \in ResolvedMatches :
              (/\ Fetched(lineupRes[m])
               /\ dbFault[m] = "none"
               /\ \A k \in 1..Len(lineupRes[m].body) :
                     {"team_name", "lineup"} \subseteq DOMAIN lineupRes[m].body[k])
              => \A k \in 1..Len(lineupRes[m].body) :
                    \A j \in 1..Len(lineupRes[m].body[k]["lineup"]) :
                        BagIn(<<m, lineupRes[m].body[k]["team_name"],
                                lineupRes[m].body[k]["lineup"][j]["player_name"]>>,
                              db.lineups)

\* C20: one invocation of the events job on an empty table in which every fetch
\* succeeds leaves one row per source event of every resolved match, events
\* without index included: every event has its row, and no row has more copies
\* than there are source events that yield it.
SourceRow(m, k) ==
    <<m, FieldOrNull(eventRes[m].body[k], "index"),
      FieldOrNull(eventRes[m].body[k], "timestamp"), TypeNameOrNull(eventRes[m].body[k])>>

SourceEvents(row) ==
    {mk \in MatchIds \X (1..MaxEvents) :
        /\ mk[1] \in ResolvedMatches
        /\ mk[2] <= Len(eventRes[mk[1]].body)
        /\ SourceRow(mk[1], mk[2]) = row}

NoEventWrittenTwice ==
    (/\ EventsJob /\ run = 1 /\ JobEnded
     /\ \A p \in Pairs : Fetched(matchRes[p])
     /\ RecordsWellFormed
     /\ \A m \in ResolvedMatches : Fetched(eventRes[m])
     /\ DatabaseHealthy)
        => \A m \in ResolvedMatches : \A k \in 1..Len(eventRes[m].body) :
              /\ CopiesIn(SourceRow(m, k), db.events) >= 1
              /\ CopiesIn(SourceRow(m, k), db.events) <= Cardinality(SourceEvents(SourceRow(m, k)))

\* C21: the progress counter counts committed matches only: it never exceeds
\* the number of tasks whose transaction has committed (and whose rows are in
\* the events table) nor total_matches, and the success lines printed so far
\* carry the counter values 1, 2, ..., k, each once, in this order.
TransactionCommitted(i) ==
    tasks[i].pc \in {"committed", "locked", "loaded", "stored", "printing", "printed",
                     "unlocked", "done"}

SuccessLines == SelectSeq(out, LAMBDA l : l.line = "inserted")

CounterCountsCommitted ==
    (EventsJob /\ pc = "ev_pool") =>
        /\ global_counter <= Cardinality({i \in DOMAIN tasks : TransactionCommitted(i)})
        /\ global_counter <= total_matches
        /\ \A i \in DOMAIN tasks :
              TransactionCommitted(i) =>
                  \A k \in 1..Len(tasks[i].batch) : BagIn(tasks[i].batch[k], db.events)
        /\ \A k \in 1..Len(SuccessLines) : SuccessLines[k].n = k
        /\ Len(SuccessLines) <= global_counter

CounterCountsCommittedWitness ==
    /\ EventsJob /\ pc = "ev_pool"
    /\ total_matches = 2
    /\ \E i, j \in DOMAIN tasks :
          /\ tasks[i].pc = "done" /\ tasks[i].batch # <<>>
          /\ tasks[j].pc = "caught"
    /\ global_counter = 1
    /\ Len(SuccessLines) = 1

\* C22: the pool cannot deadlock.  A task holds print_lock only while it
\* prints, alone on the failure path or together with progress_lock on the
\* success path; no task acquires progress_lock while it holds print_lock; a
\* finished task holds no lock; and every time the pool has been started it
\* is eventually shut down, all its tasks finished.
LockDiscipline ==
    \A i \in DOMAIN tasks :
        /\ print_lock = i => tasks[i].pc \in {"printing", "reporting"}
        /\ progress_lock = i =>
              tasks[i].pc \in {"locked", "loaded", "stored", "printing", "printed"}
        /\ tasks[i].pc = "printing" => (print_lock = i /\ progress_lock = i)
        /\ Finished(i) => (print_lock # i /\ progress_lock # i)

ProgressNeverAfterPrint ==
    \A i \in DOMAIN tasks : (progress_lock' = i /\ progress_lock # i) => print_lock # i

PoolCannotDeadlock ==
    /\ []LockDiscipline
    /\ [][ProgressNeverAfterPrint]_vars
    /\ (EventsJob /\ pc = "ev_pool") ~>
           (pc = "seq_schema" /\ \A i \in DOMAIN tasks : Finished(i))

PoolCannotDeadlockWitness ==
    \E i, j \in DOMAIN tasks :
        /\ tasks[i].pc = "printing" /\ print_lock = i /\ progress_lock = i
        /\ tasks[j].pc = "failed"

\* C23: each match's rows are committed atomically by its own worker
\* transaction.  A step of the pool either leaves the events of a match as
\* they were, or it is the load of that match's worker, which committed, and
\* then every row of its batch is in the table (or was skipped for a row with
\* its key); a worker that fails, at the connect, the fetch, the parse or the
\* write, changes no row of the table; and in the first invocation, which
\* starts on an empty table, no row of a match is visible while its worker's
\* transaction is open or after its worker has failed, and every row of its
\* batch is visible once the transaction has committed.
RowsOfMatch(T, m) == {row \in BagToSet(T) : row[1] = m}
CopiesOfMatch(T, m) == [row \in RowsOfMatch(T, m) |-> CopiesIn(row, T)]

WorkerFailed(i) == tasks[i].pc \in {"failed", "reporting", "reported", "caught"}
\* the worker has started and its transaction has not ended yet
InTransaction(i) == tasks[i].pc \in {"connected", "fetched", "written"}

WorkerStepAtomic ==
    (pc = "ev_pool" /\ pc' = "ev_pool") =>
        /\ \A i \in DOMAIN tasks :
              (tasks[i].pc # "failed" /\ tasks'[i].pc = "failed") => db' = db
        /\ \A m \in MatchIds :
              \/ CopiesOfMatch(db'.events, m) = CopiesOfMatch(db.events, m)
              \/ \E i \in DOMAIN tasks :
                    /\ tasks[i].pc = "written" /\ tasks'[i].pc = "committed"
                    /\ tasks'[i].match_id = m
                    /\ \A k \in 1..Len(tasks'[i].batch) :
                          \/ BagIn(tasks'[i].batch[k], db'.events)
                          \/ EventConflict(db'.events, tasks'[i].batch[k])

FailedWorkerLeftNothing ==
    (EventsJob /\ pc = "ev_pool" /\ run = 1) =>
        \A i \in DOMAIN tasks :
            /\ WorkerFailed(i) => RowsOfMatch(db.events, tasks[i].match_id) = {}
            /\ InTransaction(i) => RowsOfMatch(db.events, tasks[i].match_id) = {}
            /\ TransactionCommitted(i) =>
                  \A k \in 1..Len(tasks[i].batch) : BagIn(tasks[i].batch[k], db.events)

MatchRowsCommittedAtomically ==
    /\ []FailedWorkerLeftNothing
    /\ [][WorkerStepAtomic]_vars

MatchRowsCommittedAtomicallyWitness ==
    /\ EventsJob /\ pc = "ev_pool" /\ run = 1
    /\ \E i, j \in DOMAIN tasks :
          /\ tasks[i].pc = "caught" /\ Len(tasks[i].batch) = 2
          /\ dbFault[tasks[i].match_id] = "write"
          /\ RowsOfMatch(db.events, tasks[i].match_id) = {}
          /\ tasks[j].pc = "done" /\ Len(tasks[j].batch) = 2
          /\ Cardinality(RowsOfMatch(db.events, tasks[j].match_id)) = 2

====
